---- MODULE Spec2Model ----
(***************************************************************************)
(* Model of the batch airdrop engine of arbor (src/src/lib/airdrop.ts):    *)
(* PrivateAirdrop.validate, the constructor, and execute() with its two    *)
(* batch processors, stepped at the await points of the code.              *)
(***************************************************************************)
EXTENDS Integers, Sequences, FiniteSets, TLC

---------------------------------------------------------------------------
(* Bounds of the model *)

\* longest recipient list handed to execute()
MaxRecipients == 3
\* longest recipient list handed to validate()
MaxValidated == 4
\* largest explicit batchSize of a config
MaxBatchSize == 3
\* how far below 0 the loop index of execute() is followed
MaxUnderrun == 2

\* ensureTokenPool calls made in a row by a caller of its own
MaxPoolCalls == 6
\* longest recipient list of a runner that execute() is called on twice
MaxCallRecipients == 2
\* longest result of execute() that main() summarises
MaxOutcomes == 10
\* longest batch handed to processStandardBatch stepped at the ledger calls
MaxDirectBatch == 2
\* most compressed token accounts of one owner
MaxAccounts == 3
\* getCompressedBalance calls made in a row by a caller of its own
MaxQueries == 2
\* longest recipient list of a campaign run with the default batch size
MaxCampaign == 11

---------------------------------------------------------------------------
(* Program constants *)

\* const batchSize = this.config.batchSize || 10
DefaultBatchSize == 10

\* characters of a recipient's key shown in a line of main()
ShownKeyLength == 8

\* compressed-transfer.ts: const maxAttempts = 20
maxAttempts == 20

\* compressed-transfer.ts: the amount minted, the amount transferred
mintAmount == 100000
transferAmount == 50000

\* significant bits of a Number, bits of a token amount
MantissaBits == 53
AmountBits == 64

---------------------------------------------------------------------------
(* Public keys and their base58 text *)

\* A PublicKey is its byte string; the model uses two-byte keys.
AddrA == <<0, 1>>
AddrB == <<1, 0>>
AddrC == <<0, 58>>
Addresses == {AddrA, AddrB, AddrC}

\* config.authorityKeypair.publicKey
AuthorityKey == <<2, 0>>

RECURSIVE BytesToNumber(_)
BytesToNumber(bytes) ==
    IF bytes = <<>> THEN 0
    ELSE 256 * BytesToNumber(SubSeq(bytes, 1, Len(bytes) - 1)) + bytes[Len(bytes)]

RECURSIVE Base58Digits(_)
Base58Digits(n) ==
    IF n = 0 THEN <<>> ELSE Append(Base58Digits(n \div 58), n % 58)

RECURSIVE LeadingZeros(_)
LeadingZeros(bytes) ==
    IF bytes = <<>> \/ bytes[1] # 0 THEN 0
    ELSE 1 + LeadingZeros(Tail(bytes))

\* PublicKey.toBase58(): one digit 0 (the character '1') per leading zero
\* byte, then the big-endian number in base 58.
toBase58(address) ==
    [k \in 1..LeadingZeros(address) |-> 0] \o Base58Digits(BytesToNumber(address))

---------------------------------------------------------------------------
(* Recipients and configs *)

NoMetadata == <<>>

AirdropRecipient(address, amount, metadata) ==
    [address |-> address, amount |-> amount, metadata |-> metadata]

\* recipients of the campaigns that execute() runs
ExecRecipients ==
    { AirdropRecipient(AddrA, 1000000, <<"Early Adopter">>),
      AirdropRecipient(AddrB, 500000, NoMetadata),
      AirdropRecipient(AddrC, 2500000, NoMetadata) }

\* recipients of the configs that validate() is applied to: the same address
\* occurs with different amounts and metadata
ValidatedRecipients ==
    { AirdropRecipient(AddrA, 1000000, <<"Early Adopter">>),
      AirdropRecipient(AddrA, 500000, NoMetadata),
      AirdropRecipient(AddrB, 500000, NoMetadata),
      AirdropRecipient(AddrB, 1000000, NoMetadata),
      AirdropRecipient(AddrC, 2500000, NoMetadata) }

SeqsUpTo(S, n) == UNION { [1..k -> S] : k \in 0..n }

\* batchSize?: number  --  <<>> when omitted, <<n>> when given
BatchSizes == { <<>> } \cup { <<n>> : n \in (-1)..MaxBatchSize }

AirdropConfig(recipientPool, maxLen) ==
    [ recipients : SeqsUpTo(recipientPool, maxLen),
      batchSize : BatchSizes,
      useCompression : BOOLEAN ]

\* JavaScript truthiness of an optional number
Truthy(optNumber) == optNumber # <<>> /\ optNumber[1] # 0

---------------------------------------------------------------------------
(* Array.prototype.slice(start, end) *)

Min(a, b) == IF a < b THEN a ELSE b
Max(a, b) == IF a > b THEN a ELSE b

SliceIndex(len, rel) == IF rel < 0 THEN Max(len + rel, 0) ELSE Min(rel, len)

\* slice with the end index taken as inclusive
slice_InclusiveEnd(array, start, end) ==
    LET k == SliceIndex(Len(array), start)
        final == Min(SliceIndex(Len(array), end) + 1, Len(array))
    IN  IF final > k THEN SubSeq(array, k + 1, final) ELSE <<>>

slice(array, start, end) ==
    LET k == SliceIndex(Len(array), start)
        final == SliceIndex(Len(array), end)
    IN  IF final > k THEN SubSeq(array, k + 1, final) ELSE <<>>

---------------------------------------------------------------------------
(* PrivateAirdrop.validate *)

EmptyRecipientsError == << "No recipients specified", <<>> >>
BatchSizeError == << "Batch size must be at least 1", <<>> >>
DuplicateError(key) == << "Duplicate recipient: ", key >>

Returned == [status |-> "returned", error |-> << "", <<>> >>]
Threw(error) == [status |-> "threw", error |-> error]
NotCalled == [status |-> "notCalled", error |-> << "", <<>> >>]

\* the duplicate check keyed on address and amount instead of the address
RECURSIVE CheckDuplicates_ByRecipient(_, _, _)
CheckDuplicates_ByRecipient(recipients, n, addresses) ==
    IF n > Len(recipients) THEN Returned
    ELSE LET key == toBase58(recipients[n].address)
             entry == << key, recipients[n].amount >>
         IN  IF entry \in addresses THEN Threw(DuplicateError(key))
             ELSE CheckDuplicates_ByRecipient(recipients, n + 1,
                                              addresses \cup {entry})

RECURSIVE CheckDuplicates(_, _, _)
CheckDuplicates(recipients, n, addresses) ==
    IF n > Len(recipients) THEN Returned
    ELSE LET key == toBase58(recipients[n].address)
         IN  IF key \in addresses THEN Threw(DuplicateError(key))
             ELSE CheckDuplicates(recipients, n + 1, addresses \cup {key})

\* validate with the duplicate check ahead of the batch-size check
validate_DuplicatesFirst(cfg) ==
    IF Len(cfg.recipients) = 0 THEN Threw(EmptyRecipientsError)
    ELSE IF CheckDuplicates(cfg.recipients, 1, {}) # Returned
         THEN CheckDuplicates(cfg.recipients, 1, {})
    ELSE IF Truthy(cfg.batchSize) /\ cfg.batchSize[1] < 1 THEN Threw(BatchSizeError)
    ELSE Returned

\* validate with the batch-size check ahead of the empty-recipients check
validate_BatchSizeFirst(cfg) ==
    IF Truthy(cfg.batchSize) /\ cfg.batchSize[1] < 1 THEN Threw(BatchSizeError)
    ELSE IF Len(cfg.recipients) = 0 THEN Threw(EmptyRecipientsError)
    ELSE CheckDuplicates(cfg.recipients, 1, {})

validate(cfg) ==
    IF Len(cfg.recipients) = 0 THEN Threw(EmptyRecipientsError)
    ELSE IF Truthy(cfg.batchSize) /\ cfg.batchSize[1] < 1 THEN Threw(BatchSizeError)
    ELSE CheckDuplicates(cfg.recipients, 1, {})

---------------------------------------------------------------------------
(* Transfers and their outcomes *)

\* what sendAndConfirmTransaction / transfer resolve to
Signatures == { "5VERv8NMvzbJ" }

Error(message) == [isError |-> TRUE, message |-> message]
NonError(text) == [isError |-> FALSE, message |-> text]

\* no value thrown (yet) by an awaited transfer
NoThrown == [isError |-> FALSE, message |-> <<>>]

\* what sendStandardTransfer can reject with: an Error with an empty message
\* (the spl-token TokenError classes carry none), an Error with a message, a
\* thrown value that is no Error
StandardThrown ==
    { Error(<<"">>), Error(<<"insufficient funds">>), NonError(<<"timeout">>) }

\* what the Light Protocol transfer() can reject with
BackendThrown == { Error(<<"proof fetch failed">>), NonError(<<"indexer lag">>) }

\* `${error}`
ErrorToString(thrown) ==
    IF thrown.isError THEN <<"Error: ">> \o thrown.message ELSE thrown.message

\* transferCompressed rethrowing a fixed message, without the cause
transferCompressedCatch_DropsCause(thrown) ==
    Error(<<"Failed to transfer compressed tokens">>)

\* transferCompressed: the try/catch around transfer()
transferCompressedCatch(thrown) ==
    Error(<<"Failed to transfer compressed tokens: ">> \o ErrorToString(thrown))

SuccessOutcome(recipient, signature) ==
    [ signature |-> signature,
      recipient |-> recipient.address,
      amount |-> recipient.amount,
      success |-> TRUE ]

\* the catch block with error: error.message, undefined for a non-Error
FailureOutcome_MessageOnly(recipient, thrown) ==
    IF thrown.isError
    THEN [ signature |-> "",
           recipient |-> recipient.address,
           amount |-> recipient.amount,
           success |-> FALSE,
           error |-> thrown.message ]
    ELSE [ signature |-> "",
           recipient |-> recipient.address,
           amount |-> recipient.amount,
           success |-> FALSE ]

\* the catch block with error: String(error) for every thrown value
FailureOutcome_StringOfThrown(recipient, thrown) ==
    [ signature |-> "",
      recipient |-> recipient.address,
      amount |-> recipient.amount,
      success |-> FALSE,
      error |-> ErrorToString(thrown) ]

FailureOutcome(recipient, thrown) ==
    [ signature |-> "",
      recipient |-> recipient.address,
      amount |-> recipient.amount,
      success |-> FALSE,
      error |-> IF thrown.isError THEN thrown.message ELSE <<"Unknown error">> ]

\* ensureTokenPool: what createTokenPool answers, and what the caller gets
PoolAnswers == { "created", "already in use", "network error" }

\* ensureTokenPool without the test for 'already in use'
ensureTokenPool_NoAlreadyInUse(answer) ==
    IF answer = "created" THEN [threw |-> FALSE, value |-> <<"signature">>]
    ELSE [threw |-> TRUE, value |-> <<"Failed to create token pool: ", answer>>]

ensureTokenPool(answer) ==
    IF answer = "created" THEN [threw |-> FALSE, value |-> <<"signature">>]
    ELSE IF answer = "already in use" THEN [threw |-> FALSE, value |-> <<>>]
    ELSE [threw |-> TRUE, value |-> <<"Failed to create token pool: ", answer>>]

---------------------------------------------------------------------------
(* State *)

VARIABLES
    config,        \* the caller's AirdropConfig
    lightRpc,      \* whether a Light Protocol Rpc was handed to the constructor
    pc,            \* where the runner, or the main() of a demo, is
    results,       \* execute(): const results
    batchSize,     \* execute(): const batchSize
    i,             \* execute(): the loop index
    batch,         \* execute(): const batch, the recipients of processBatch
    batchNumber,   \* processBatch(): batchNumber
    batchResults,  \* process*Batch(): const results
    j,             \* process*Batch(): position of the for-of loop in batch
    xfers,         \* every transfer handed to the ledger or backend so far
    batchLog,      \* every processBatch call so far
    poolFailed,    \* whether an ensureTokenPool call of this run threw
    vResult,       \* outcome of the validate() call
    processor,     \* which process*Batch method processBatch dispatched to
    delayLog,      \* the ms of every this.delay(ms) call so far
    poolExists,    \* backend: whether the token pool of the mint exists
    poolResult,    \* the last ensureTokenPool call: backend answer and result
    poolCalls,     \* ensureTokenPool calls made by the runner
    poolDone,      \* ensureTokenPool calls of the runner that have finished
    poolLog,       \* direct ensureTokenPool calls, each with answer and result
    calls,         \* the execute() calls in flight on one runner, by call
    ledgerLog,     \* every call sendStandardTransfer made on the ledger
    report,        \* what main() prints of the results of execute()
    vAgain,        \* outcome of a second validate() call on the same config
    tokenAccounts, \* indexer: amounts of the owner's compressed token accounts
    balanceLog,    \* every getCompressedBalance call so far, with its result
    attempts,      \* the demo's main(): let attempts
    balanceBefore  \* the demo's main(): let balanceBefore

indexerVars == << tokenAccounts, balanceLog, attempts, balanceBefore >>

auxVars == << calls, ledgerLog, report, vAgain >>

poolVars == << poolExists, poolResult, poolCalls, poolDone, poolLog >>

vars == << config, lightRpc, pc, results, batchSize, i, batch, batchNumber,
           batchResults, j, xfers, batchLog, poolFailed, vResult, processor,
           delayLog, poolVars, auxVars, indexerVars >>

runVars == << results, batchSize, i, batch, batchNumber, batchResults, j,
              xfers, batchLog, poolFailed, processor, delayLog >>

NoPoolResult == [answer |-> "none", threw |-> FALSE, value |-> <<>>]

NoReport == [total |-> -1, successful |-> -1, failed |-> -1, failedDetails |-> <<>>]

\* nothing beyond one validate() and one execute() call is going on
InitAux ==
    /\ calls = <<>>
    /\ ledgerLog = <<>>
    /\ report = NoReport
    /\ vAgain = NotCalled

\* no compressed account is indexed, no balance has been asked for
InitIndexer ==
    /\ tokenAccounts = <<>>
    /\ balanceLog = <<>>
    /\ attempts = 0
    /\ balanceBefore = 0

InitRun ==
    /\ pc = "new"
    /\ results = <<>>
    /\ batchSize = 0
    /\ i = 0
    /\ batch = <<>>
    /\ batchNumber = 0
    /\ batchResults = <<>>
    /\ j = 1
    /\ xfers = <<>>
    /\ batchLog = <<>>
    /\ poolFailed = FALSE
    /\ vResult = NotCalled
    /\ processor = "none"
    /\ delayLog = <<>>
    /\ poolResult = NoPoolResult
    /\ poolCalls = 0
    /\ poolDone = 0
    /\ poolLog = <<>>

Init ==
    /\ config \in AirdropConfig(ExecRecipients, MaxRecipients)
    /\ lightRpc \in BOOLEAN
    /\ poolExists \in BOOLEAN
    /\ InitRun
    /\ InitAux
    /\ InitIndexer

InitV ==
    /\ config \in AirdropConfig(ValidatedRecipients, MaxValidated)
    /\ lightRpc = FALSE
    /\ poolExists = FALSE
    /\ InitRun
    /\ InitAux
    /\ InitIndexer

\* the runner of the earlier airdrop.ts: no lightRpc parameter
InitLegacy ==
    /\ config \in AirdropConfig(ExecRecipients, MaxRecipients)
    /\ lightRpc = FALSE
    /\ poolExists = FALSE
    /\ InitRun
    /\ InitAux
    /\ InitIndexer

\* ensureTokenPool called on its own
InitPool ==
    /\ config = [recipients |-> <<>>, batchSize |-> <<>>, useCompression |-> TRUE]
    /\ lightRpc = TRUE
    /\ poolExists \in BOOLEAN
    /\ InitRun
    /\ InitAux
    /\ InitIndexer

---------------------------------------------------------------------------
(* Actions *)

\* static validate(config), called by the owner of the config
Validate ==
    /\ vResult = NotCalled
    /\ vResult' = validate(config)
    /\ UNCHANGED << indexerVars, auxVars, config, lightRpc, pc, runVars, poolVars >>

\* the constructor without the lightRpc requirement
Constructor_NoCheck ==
    /\ pc = "new"
    /\ pc' = "ready"
    /\ UNCHANGED << indexerVars, auxVars, config, lightRpc, runVars, vResult, poolVars >>

\* new PrivateAirdrop(connection, config, lightRpc)
Constructor ==
    /\ pc = "new"
    /\ pc' = IF config.useCompression /\ ~lightRpc THEN "ctorThrew" ELSE "ready"
    /\ UNCHANGED << indexerVars, auxVars, config, lightRpc, runVars, vResult, poolVars >>

\* the earlier constructor: new PrivateAirdrop(connection, config)
ConstructorLegacy ==
    /\ pc = "new"
    /\ pc' = "ready"
    /\ UNCHANGED << indexerVars, auxVars, config, lightRpc, runVars, vResult, poolVars >>

\* the caller changes the mode flag of its config while execute() is suspended
SetUseCompression ==
    /\ pc \in {"ensureTokenPool", "transfer", "delay500", "delay1000"}
    /\ config' = [config EXCEPT !.useCompression = ~@]
    /\ UNCHANGED << indexerVars, auxVars, lightRpc, pc, runVars, vResult, poolVars >>

\* execute() with a default batch size of 1: this.config.batchSize || 1
Execute_DefaultOne ==
    /\ pc = "ready"
    /\ results' = <<>>
    /\ batchSize' = IF Truthy(config.batchSize) THEN config.batchSize[1]
                    ELSE 1
    /\ i' = 0
    /\ pc' = "loop"
    /\ UNCHANGED << indexerVars, auxVars, config, lightRpc, batch, batchNumber, batchResults, j,
                    xfers, batchLog, poolFailed, vResult, processor, delayLog,
                    poolVars >>

\* execute(): up to the loop
Execute ==
    /\ pc = "ready"
    /\ results' = <<>>
    /\ batchSize' = IF Truthy(config.batchSize) THEN config.batchSize[1]
                    ELSE DefaultBatchSize
    /\ i' = 0
    /\ pc' = "loop"
    /\ UNCHANGED << indexerVars, auxVars, config, lightRpc, batch, batchNumber, batchResults, j,
                    xfers, batchLog, poolFailed, vResult, processor, delayLog,
                    poolVars >>

\* the batch number passed as i / batchSize, counting from 0
BatchNumberOf_ZeroBased(index, size) ==
    IF size < 0 THEN (-index) \div (-size) ELSE index \div size

\* i / batchSize + 1, for i a multiple of batchSize
BatchNumberOf(index, size) ==
    (IF size < 0 THEN (-index) \div (-size) ELSE index \div size) + 1

\* the loop iteration with ensureTokenPool called but not awaited
ExecuteLoop_PoolNotAwaited ==
    /\ pc = "loop"
    /\ i < Len(config.recipients)
    /\ i >= -MaxUnderrun
    /\ batch' = slice(config.recipients, i, i + batchSize)
    /\ batchNumber' = BatchNumberOf(i, batchSize)
    /\ batchLog' = Append(batchLog, [number |-> batchNumber', recipients |-> batch'])
    /\ batchResults' = <<>>
    /\ j' = 1
    /\ processor' = IF config.useCompression THEN "compressed" ELSE "standard"
    /\ pc' = IF config.useCompression /\ ~lightRpc THEN "threw" ELSE "forOf"
    /\ poolCalls' = IF config.useCompression /\ lightRpc THEN poolCalls + 1
                    ELSE poolCalls
    /\ UNCHANGED << indexerVars, auxVars, config, lightRpc, results, batchSize, i, xfers, poolFailed,
                    vResult, delayLog, poolExists, poolResult, poolDone,
                    poolLog >>

\* ensureTokenPool called for the first batch of the campaign only
ExecuteLoop_PoolOncePerCampaign ==
    /\ pc = "loop"
    /\ i < Len(config.recipients)
    /\ i >= -MaxUnderrun
    /\ batch' = slice(config.recipients, i, i + batchSize)
    /\ batchNumber' = BatchNumberOf(i, batchSize)
    /\ batchLog' = Append(batchLog, [number |-> batchNumber', recipients |-> batch'])
    /\ batchResults' = <<>>
    /\ j' = 1
    /\ processor' = IF config.useCompression THEN "compressed" ELSE "standard"
    /\ pc' = IF config.useCompression
             THEN (IF ~lightRpc THEN "threw"
                   ELSE IF poolCalls = 0 THEN "ensureTokenPool" ELSE "forOf")
             ELSE "forOf"
    /\ poolCalls' = IF config.useCompression /\ lightRpc /\ poolCalls = 0
                    THEN poolCalls + 1 ELSE poolCalls
    /\ UNCHANGED << indexerVars, auxVars, config, lightRpc, results, batchSize, i, xfers, poolFailed,
                    vResult, delayLog, poolExists, poolResult, poolDone,
                    poolLog >>

\* processBatch choosing the processor by the presence of lightRpc
ExecuteLoop_BackendWhenSupplied ==
    /\ pc = "loop"
    /\ i < Len(config.recipients)
    /\ i >= -MaxUnderrun
    /\ batch' = slice(config.recipients, i, i + batchSize)
    /\ batchNumber' = BatchNumberOf(i, batchSize)
    /\ batchLog' = Append(batchLog, [number |-> batchNumber', recipients |-> batch'])
    /\ batchResults' = <<>>
    /\ j' = 1
    /\ processor' = IF lightRpc THEN "compressed" ELSE "standard"
    /\ pc' = IF lightRpc THEN "ensureTokenPool" ELSE "forOf"
    /\ poolCalls' = IF lightRpc THEN poolCalls + 1 ELSE poolCalls
    /\ UNCHANGED << indexerVars, auxVars, config, lightRpc, results, batchSize, i, xfers, poolFailed,
                    vResult, delayLog, poolExists, poolResult, poolDone,
                    poolLog >>

\* one iteration of the loop: slice, processBatch up to its first await
ExecuteLoop ==
    /\ pc = "loop"
    /\ i < Len(config.recipients)
    /\ i >= -MaxUnderrun
    /\ batch' = slice(config.recipients, i, i + batchSize)
    /\ batchNumber' = BatchNumberOf(i, batchSize)
    /\ batchLog' = Append(batchLog, [number |-> batchNumber', recipients |-> batch'])
    /\ batchResults' = <<>>
    /\ j' = 1
    /\ processor' = IF config.useCompression THEN "compressed" ELSE "standard"
    /\ pc' = IF config.useCompression
             THEN (IF ~lightRpc THEN "threw" ELSE "ensureTokenPool")
             ELSE "forOf"
    /\ poolCalls' = IF config.useCompression /\ lightRpc THEN poolCalls + 1
                    ELSE poolCalls
    /\ UNCHANGED << indexerVars, auxVars, config, lightRpc, results, batchSize, i, xfers, poolFailed,
                    vResult, delayLog, poolExists, poolResult, poolDone,
                    poolLog >>

\* the earlier airdrop.ts: processCompressedBatch logs and returns
\* this.processStandardBatch(recipients)
ExecuteLoopLegacy ==
    /\ pc = "loop"
    /\ i < Len(config.recipients)
    /\ i >= -MaxUnderrun
    /\ batch' = slice(config.recipients, i, i + batchSize)
    /\ batchNumber' = BatchNumberOf(i, batchSize)
    /\ batchLog' = Append(batchLog, [number |-> batchNumber', recipients |-> batch'])
    /\ batchResults' = <<>>
    /\ j' = 1
    /\ processor' = "standard"
    /\ pc' = "forOf"
    /\ UNCHANGED << indexerVars, auxVars, config, lightRpc, results, batchSize, i, xfers, poolFailed,
                    vResult, delayLog, poolVars >>

\* the loop ends: return results
ExecuteReturn ==
    /\ pc = "loop"
    /\ i >= Len(config.recipients)
    /\ pc' = "done"
    /\ UNCHANGED << indexerVars, auxVars, config, lightRpc, runVars, vResult, poolVars >>

\* the backend's createTokenPool: what it can answer in a given pool state
createTokenPool(exists) ==
    IF exists THEN { "already in use", "network error" }
    ELSE { "created", "network error" }

PoolCallRecord(answer) ==
    [ answer |-> answer,
      threw |-> ensureTokenPool(answer).threw,
      value |-> ensureTokenPool(answer).value ]

\* ensureTokenPool awaited without the try/catch around it
AwaitEnsureTokenPool_NoCatch ==
    /\ pc = "ensureTokenPool"
    /\ \E answer \in createTokenPool(poolExists) :
          /\ poolFailed' = (poolFailed \/ ensureTokenPool(answer).threw)
          /\ poolResult' = PoolCallRecord(answer)
          /\ poolExists' = (poolExists \/ answer = "created")
          /\ pc' = IF ensureTokenPool(answer).threw THEN "threw" ELSE "forOf"
    /\ poolDone' = poolDone + 1
    /\ UNCHANGED << indexerVars, auxVars, config, lightRpc, results, batchSize, i, batch, batchNumber,
                    batchResults, j, xfers, batchLog, vResult, processor,
                    delayLog, poolCalls, poolLog >>

\* the catch block of the pool call returning the empty results of the batch
AwaitEnsureTokenPool_SkipsBatch ==
    /\ pc = "ensureTokenPool"
    /\ \E answer \in createTokenPool(poolExists) :
          /\ poolFailed' = (poolFailed \/ ensureTokenPool(answer).threw)
          /\ poolResult' = PoolCallRecord(answer)
          /\ poolExists' = (poolExists \/ answer = "created")
          /\ j' = IF ensureTokenPool(answer).threw THEN Len(batch) + 1 ELSE j
    /\ poolDone' = poolDone + 1
    /\ pc' = "forOf"
    /\ UNCHANGED << indexerVars, auxVars, config, lightRpc, results, batchSize, i, batch,
                    batchNumber, batchResults, xfers, batchLog, vResult,
                    processor, delayLog, poolCalls, poolLog >>

\* processCompressedBatch: await ensureTokenPool(...) inside try/catch
AwaitEnsureTokenPool ==
    /\ pc = "ensureTokenPool"
    /\ \E answer \in createTokenPool(poolExists) :
          /\ poolFailed' = (poolFailed \/ ensureTokenPool(answer).threw)
          /\ poolResult' = PoolCallRecord(answer)
          /\ poolExists' = (poolExists \/ answer = "created")
    /\ poolDone' = poolDone + 1
    /\ pc' = "forOf"
    /\ UNCHANGED << indexerVars, auxVars, config, lightRpc, results, batchSize, i, batch, batchNumber,
                    batchResults, j, xfers, batchLog, vResult, processor,
                    delayLog, poolCalls, poolLog >>

\* ensureTokenPool(rpc, payer, mint) called and awaited by a caller of its own
EnsureTokenPoolCall ==
    /\ pc = "new"
    /\ Len(poolLog) < MaxPoolCalls
    /\ \E answer \in createTokenPool(poolExists) :
          /\ poolLog' = Append(poolLog, PoolCallRecord(answer))
          /\ poolResult' = PoolCallRecord(answer)
          /\ poolExists' = (poolExists \/ answer = "created")
    /\ UNCHANGED << indexerVars, auxVars, config, lightRpc, pc, runVars, vResult, poolCalls, poolDone >>

\* getCompressedBalance of compressed-account.ts, used by the demos
\* amounts of compressed token accounts
AccountAmounts == { 0, 50000, 100000 }

\* what rpc.getCompressedTokenAccountsByOwner(owner, {mint}) can answer when
\* the indexer holds the given accounts: it rejects, or it lists them
IndexerAnswers(accounts) ==
    { [threw |-> TRUE, items |-> <<>>], [threw |-> FALSE, items |-> accounts] }

\* let totalBalance = BigInt(0); for (const account of accounts.items) ...
RECURSIVE SumBalances(_)
SumBalances(items) ==
    IF items = <<>> THEN 0
    ELSE SumBalances(SubSeq(items, 1, Len(items) - 1)) + items[Len(items)]

\* getCompressedBalance without its try/catch
getCompressedBalance_NoCatch(answer) ==
    IF answer.threw THEN [threw |-> TRUE, value |-> 0]
    ELSE [threw |-> FALSE, value |-> SumBalances(answer.items)]

getCompressedBalance(answer) ==
    IF answer.threw THEN [threw |-> FALSE, value |-> 0]
    ELSE [threw |-> FALSE, value |-> SumBalances(answer.items)]

BalanceCall(answer) ==
    [ answer |-> answer, result |-> getCompressedBalance(answer) ]

\* the transfer started without await: the loop moves on at once
StartTransfer_NoAwait ==
    /\ pc = "forOf"
    /\ j <= Len(batch)
    /\ xfers' = Append(xfers,
                       [ to |-> batch[j].address,
                         amount |-> batch[j].amount,
                         mode |-> processor,
                         state |-> "pending",
                         thrown |-> NoThrown ])
    /\ j' = j + 1
    /\ UNCHANGED << indexerVars, auxVars, config, lightRpc, pc, results, batchSize, i, batch,
                    batchNumber, batchResults, batchLog, poolFailed, vResult,
                    processor, delayLog, poolVars >>

\* for (const recipient of recipients): the transfer is handed over, awaited
StartTransfer ==
    /\ pc = "forOf"
    /\ j <= Len(batch)
    /\ xfers' = Append(xfers,
                       [ to |-> batch[j].address,
                         amount |-> batch[j].amount,
                         mode |-> processor,
                         state |-> "pending",
                         thrown |-> NoThrown ])
    /\ pc' = "transfer"
    /\ UNCHANGED << indexerVars, auxVars, config, lightRpc, results, batchSize, i, batch, batchNumber,
                    batchResults, j, batchLog, poolFailed, vResult, processor,
                    delayLog, poolVars >>

\* every recipient followed by delay(500), in both processors
AfterTransfer_AlwaysDelay == "delay500"

\* where the for-of body goes once the transfer has settled
AfterTransfer == IF processor = "compressed" THEN "delay500" ELSE "forOf"

\* the delay(ms) calls made once the transfer has settled
DelayAfterTransfer == IF AfterTransfer = "delay500" THEN <<500>> ELSE <<>>

ThrownValues ==
    IF processor = "compressed"
    THEN { transferCompressedCatch(t) : t \in BackendThrown }
    ELSE StandardThrown

\* the compressed transfer followed by a poll of the indexed balance, the way
\* the demo waits for the indexer
TransferResolves_WaitsForIndex ==
    /\ pc = "transfer"
    /\ \E signature \in Signatures :
          batchResults' = Append(batchResults, SuccessOutcome(batch[j], signature))
    /\ xfers' = [xfers EXCEPT ![Len(xfers)].state = "confirmed"]
    /\ j' = j + 1
    /\ delayLog' = delayLog \o DelayAfterTransfer
    /\ pc' = AfterTransfer
    /\ balanceLog' = IF processor = "compressed"
                     THEN Append(balanceLog,
                                 BalanceCall([threw |-> FALSE, items |-> tokenAccounts]))
                     ELSE balanceLog
    /\ UNCHANGED << tokenAccounts, attempts, balanceBefore, auxVars, config, lightRpc, results, batchSize, i, batch, batchNumber,
                    batchLog, poolFailed, vResult, processor, poolVars >>

\* the awaited transfer resolves with a signature
TransferResolves ==
    /\ pc = "transfer"
    /\ \E signature \in Signatures :
          batchResults' = Append(batchResults, SuccessOutcome(batch[j], signature))
    /\ xfers' = [xfers EXCEPT ![Len(xfers)].state = "confirmed"]
    /\ j' = j + 1
    /\ delayLog' = delayLog \o DelayAfterTransfer
    /\ pc' = AfterTransfer
    /\ UNCHANGED << indexerVars, auxVars, config, lightRpc, results, batchSize, i, batch, batchNumber,
                    batchLog, poolFailed, vResult, processor, poolVars >>

\* the catch block leaving the for-of loop (break) after recording the failure
TransferRejects_Break ==
    /\ pc = "transfer"
    /\ \E thrown \in ThrownValues :
          /\ batchResults' = Append(batchResults, FailureOutcome(batch[j], thrown))
          /\ xfers' = [xfers EXCEPT ![Len(xfers)].state = "failed",
                                    ![Len(xfers)].thrown = thrown]
    /\ j' = Len(batch) + 1
    /\ delayLog' = delayLog \o DelayAfterTransfer
    /\ pc' = AfterTransfer
    /\ UNCHANGED << indexerVars, auxVars, config, lightRpc, results, batchSize, i, batch, batchNumber,
                    batchLog, poolFailed, vResult, processor, poolVars >>

\* the catch block trying the same recipient once more before recording
TransferRejects_RetryOnce ==
    /\ pc = "transfer"
    /\ xfers' = [xfers EXCEPT ![Len(xfers)].state = "failed"]
    /\ IF Cardinality({ p \in 1..Len(xfers) : xfers[p].to = batch[j].address }) < 2
       THEN /\ pc' = "forOf"
            /\ UNCHANGED << indexerVars, auxVars, batchResults, j, delayLog >>
       ELSE /\ \E thrown \in ThrownValues :
                  batchResults' =
                      Append(batchResults, FailureOutcome(batch[j], thrown))
            /\ j' = j + 1
            /\ delayLog' = delayLog \o DelayAfterTransfer
            /\ pc' = AfterTransfer
    /\ UNCHANGED << indexerVars, auxVars, config, lightRpc, results, batchSize, i, batch, batchNumber,
                    batchLog, poolFailed, vResult, processor, poolVars >>

\* the for-of body without its try/catch: the rejection leaves execute()
TransferRejects_Uncaught ==
    /\ pc = "transfer"
    /\ xfers' = [xfers EXCEPT ![Len(xfers)].state = "failed"]
    /\ pc' = "threw"
    /\ UNCHANGED << indexerVars, auxVars, config, lightRpc, results, batchSize, i, batch, batchNumber,
                    batchResults, j, batchLog, poolFailed, vResult, processor,
                    delayLog, poolVars >>

\* the awaited transfer rejects: the catch block
TransferRejects ==
    /\ pc = "transfer"
    /\ \E thrown \in ThrownValues :
          /\ batchResults' = Append(batchResults, FailureOutcome(batch[j], thrown))
          /\ xfers' = [xfers EXCEPT ![Len(xfers)].state = "failed",
                                    ![Len(xfers)].thrown = thrown]
    /\ j' = j + 1
    /\ delayLog' = delayLog \o DelayAfterTransfer
    /\ pc' = AfterTransfer
    /\ UNCHANGED << indexerVars, auxVars, config, lightRpc, results, batchSize, i, batch, batchNumber,
                    batchLog, poolFailed, vResult, processor, poolVars >>

\* processCompressedBatch: await this.delay(500) is over
Delay500 ==
    /\ pc = "delay500"
    /\ pc' = "forOf"
    /\ UNCHANGED << indexerVars, auxVars, config, lightRpc, runVars, vResult, poolVars >>

\* the batch results put in front of results (unshift) instead of pushed
ProcessBatchReturns_Prepends ==
    /\ pc = "forOf"
    /\ j > Len(batch)
    /\ results' = batchResults \o results
    /\ batchResults' = <<>>
    /\ IF i + batchSize < Len(config.recipients)
       THEN pc' = "delay1000" /\ i' = i /\ delayLog' = Append(delayLog, 1000)
       ELSE pc' = "loop" /\ i' = i + batchSize /\ delayLog' = delayLog
    /\ UNCHANGED << indexerVars, auxVars, config, lightRpc, batchSize, batch, batchNumber, j, xfers,
                    batchLog, poolFailed, vResult, processor, poolVars >>

\* the batch results assigned to results instead of pushed onto it
ProcessBatchReturns_Overwrite ==
    /\ pc = "forOf"
    /\ j > Len(batch)
    /\ results' = batchResults
    /\ batchResults' = <<>>
    /\ IF i + batchSize < Len(config.recipients)
       THEN pc' = "delay1000" /\ i' = i /\ delayLog' = Append(delayLog, 1000)
       ELSE pc' = "loop" /\ i' = i + batchSize /\ delayLog' = delayLog
    /\ UNCHANGED << indexerVars, auxVars, config, lightRpc, batchSize, batch, batchNumber, j, xfers,
                    batchLog, poolFailed, vResult, processor, poolVars >>

\* the delay test written with <=: a delay also after a last, full batch
ProcessBatchReturns_DelayAfterLast ==
    /\ pc = "forOf"
    /\ j > Len(batch)
    /\ results' = results \o batchResults
    /\ batchResults' = <<>>
    /\ IF i + batchSize <= Len(config.recipients)
       THEN pc' = "delay1000" /\ i' = i /\ delayLog' = Append(delayLog, 1000)
       ELSE pc' = "loop" /\ i' = i + batchSize /\ delayLog' = delayLog
    /\ UNCHANGED << indexerVars, auxVars, config, lightRpc, batchSize, batch, batchNumber, j, xfers,
                    batchLog, poolFailed, vResult, processor, poolVars >>

\* process*Batch returns; results.push(...batchResults); the delay test
ProcessBatchReturns ==
    /\ pc = "forOf"
    /\ j > Len(batch)
    /\ results' = results \o batchResults
    /\ batchResults' = <<>>
    /\ IF i + batchSize < Len(config.recipients)
       THEN pc' = "delay1000" /\ i' = i /\ delayLog' = Append(delayLog, 1000)
       ELSE pc' = "loop" /\ i' = i + batchSize /\ delayLog' = delayLog
    /\ UNCHANGED << indexerVars, auxVars, config, lightRpc, batchSize, batch, batchNumber, j, xfers,
                    batchLog, poolFailed, vResult, processor, poolVars >>

\* execute(): await this.delay(1000) is over; i += batchSize
Delay1000 ==
    /\ pc = "delay1000"
    /\ i' = i + batchSize
    /\ pc' = "loop"
    /\ UNCHANGED << indexerVars, auxVars, config, lightRpc, results, batchSize, batch, batchNumber,
                    batchResults, j, xfers, batchLog, poolFailed, vResult,
                    processor, delayLog, poolVars >>

Next ==
    \/ Constructor
    \/ Execute
    \/ ExecuteLoop
    \/ ExecuteReturn
    \/ AwaitEnsureTokenPool
    \/ StartTransfer
    \/ TransferResolves
    \/ TransferRejects
    \/ Delay500
    \/ ProcessBatchReturns
    \/ Delay1000

Spec == Init /\ [][Next]_vars

NextV == Validate

SpecV == InitV /\ [][NextV]_vars

\* the steps the runner takes by itself and its timers: everything but the
\* answers of the ledger and of the backend
RunnerSteps ==
    \/ Constructor
    \/ Execute
    \/ ExecuteLoop
    \/ ExecuteReturn
    \/ StartTransfer
    \/ Delay500
    \/ ProcessBatchReturns
    \/ Delay1000

\* every awaited call is answered in the end
SpecFair == Init /\ [][Next]_vars /\ WF_vars(Next)

\* the runner and its timers go on, the ledger and the backend may never answer
SpecUntimed == Init /\ [][Next]_vars /\ WF_vars(RunnerSteps)

\* the caller keeps the config object and may change it during the run
NextMut ==
    \/ Next
    \/ SetUseCompression

SpecMut == Init /\ [][NextMut]_vars

\* the earlier airdrop.ts
NextLegacy ==
    \/ ConstructorLegacy
    \/ Execute
    \/ ExecuteLoopLegacy
    \/ ExecuteReturn
    \/ StartTransfer
    \/ TransferResolves
    \/ TransferRejects
    \/ ProcessBatchReturns
    \/ Delay1000

SpecLegacy == InitLegacy /\ [][NextLegacy]_vars

NextPool == EnsureTokenPoolCall

SpecPool == InitPool /\ [][NextPool]_vars

---------------------------------------------------------------------------
(* Two execute() calls on one runner *)

Calls == {1, 2}

NoCall ==
    [ pc |-> "idle", results |-> <<>>, batchSize |-> 0, i |-> 0, batch |-> <<>>,
      batchResults |-> <<>>, j |-> 1, own |-> <<>> ]

\* recipients of the runner that execute() is called on twice
CallRecipients ==
    { AirdropRecipient(AddrA, 1000000, <<"Early Adopter">>),
      AirdropRecipient(AddrB, 500000, NoMetadata) }

\* a constructed runner on which execute() has not been called yet
InitTwo ==
    /\ config \in AirdropConfig(CallRecipients, MaxCallRecipients)
    /\ lightRpc \in BOOLEAN
    /\ config.useCompression => lightRpc
    /\ poolExists = FALSE
    /\ InitRun
    /\ calls = [c \in Calls |-> NoCall]
    /\ ledgerLog = <<>>
    /\ report = NoReport
    /\ vAgain = NotCalled
    /\ InitIndexer

CallFrame ==
    UNCHANGED << indexerVars, config, lightRpc, pc, runVars, vResult, poolResult, poolCalls,
                 poolDone, poolLog, ledgerLog, report, vAgain >>

\* execute(): up to the loop
CallExecute(c) ==
    /\ calls[c].pc = "idle"
    /\ calls' = [calls EXCEPT ![c] =
                   [ @ EXCEPT !.pc = "loop",
                              !.results = <<>>,
                              !.batchSize = IF Truthy(config.batchSize)
                                            THEN config.batchSize[1]
                                            ELSE DefaultBatchSize,
                              !.i = 0 ]]
    /\ UNCHANGED poolExists
    /\ CallFrame

\* one iteration of the loop: slice, processBatch up to its first await
CallLoop(c) ==
    /\ calls[c].pc = "loop"
    /\ calls[c].i < Len(config.recipients)
    /\ calls[c].i >= -MaxUnderrun
    /\ calls' = [calls EXCEPT ![c] =
                   [ @ EXCEPT !.batch = slice(config.recipients, calls[c].i,
                                              calls[c].i + calls[c].batchSize),
                              !.batchResults = <<>>,
                              !.j = 1,
                              !.pc = IF config.useCompression
                                     THEN "ensureTokenPool" ELSE "forOf" ]]
    /\ UNCHANGED poolExists
    /\ CallFrame

\* the loop ends: return results
CallReturn(c) ==
    /\ calls[c].pc = "loop"
    /\ calls[c].i >= Len(config.recipients)
    /\ calls' = [calls EXCEPT ![c].pc = "done"]
    /\ UNCHANGED poolExists
    /\ CallFrame

\* processCompressedBatch: await ensureTokenPool(...) inside try/catch
CallEnsureTokenPool(c) ==
    /\ calls[c].pc = "ensureTokenPool"
    /\ \E answer \in createTokenPool(poolExists) :
          poolExists' = (poolExists \/ answer = "created")
    /\ calls' = [calls EXCEPT ![c].pc = "forOf"]
    /\ CallFrame

\* for (const recipient of recipients): the transfer is handed over, awaited
CallStartTransfer(c) ==
    /\ calls[c].pc = "forOf"
    /\ calls[c].j <= Len(calls[c].batch)
    /\ calls' = [calls EXCEPT ![c].pc = "transfer"]
    /\ UNCHANGED poolExists
    /\ CallFrame

\* what the awaited transfer of a call rejects with: one thrown value for
\* each mode, the calls are told apart by success and failure
CallThrown ==
    IF config.useCompression
    THEN { transferCompressedCatch(Error(<<"proof fetch failed">>)) }
    ELSE { Error(<<"insufficient funds">>) }

\* the outcomes the awaited transfer of a call can end in
CallOutcomes(c) ==
    LET recipient == calls[c].batch[calls[c].j]
    IN  { SuccessOutcome(recipient, signature) : signature \in Signatures }
        \cup { FailureOutcome(recipient, thrown) : thrown \in CallThrown }

\* the awaited transfer settles: push onto the results of the batch
CallTransferSettles(c) ==
    /\ calls[c].pc = "transfer"
    /\ \E outcome \in CallOutcomes(c) :
          calls' = [calls EXCEPT ![c] =
                      [ @ EXCEPT !.batchResults = Append(@, outcome),
                                 !.own = Append(@, outcome),
                                 !.j = @ + 1,
                                 !.pc = IF config.useCompression
                                        THEN "delay500" ELSE "forOf" ]]
    /\ UNCHANGED poolExists
    /\ CallFrame

\* processCompressedBatch: await this.delay(500) is over
CallDelay500(c) ==
    /\ calls[c].pc = "delay500"
    /\ calls' = [calls EXCEPT ![c].pc = "forOf"]
    /\ UNCHANGED poolExists
    /\ CallFrame

\* what process*Batch returning does to the call itself
CallAfterBatch(c) ==
    [ calls[c] EXCEPT
        !.results = @ \o calls[c].batchResults,
        !.batchResults = <<>>,
        !.pc = IF calls[c].i + calls[c].batchSize < Len(config.recipients)
               THEN "delay1000" ELSE "loop",
        !.i = IF calls[c].i + calls[c].batchSize < Len(config.recipients)
              THEN @ ELSE @ + calls[c].batchSize ]

\* results kept in a field of the runner: one array for all calls
CallBatchReturns_SharedResults(c) ==
    /\ calls[c].pc = "forOf"
    /\ calls[c].j > Len(calls[c].batch)
    /\ calls' = [d \in Calls |->
                   IF d = c THEN CallAfterBatch(c)
                   ELSE [calls[d] EXCEPT !.results = @ \o calls[c].batchResults]]
    /\ UNCHANGED poolExists
    /\ CallFrame

\* process*Batch returns; results.push(...batchResults); the delay test
CallBatchReturns(c) ==
    /\ calls[c].pc = "forOf"
    /\ calls[c].j > Len(calls[c].batch)
    /\ calls' = [calls EXCEPT ![c] = CallAfterBatch(c)]
    /\ UNCHANGED poolExists
    /\ CallFrame

\* execute(): await this.delay(1000) is over; i += batchSize
CallDelay1000(c) ==
    /\ calls[c].pc = "delay1000"
    /\ calls' = [calls EXCEPT ![c] =
                   [ @ EXCEPT !.i = @ + calls[c].batchSize, !.pc = "loop" ]]
    /\ UNCHANGED poolExists
    /\ CallFrame

NextTwo ==
    \/ \E c \in Calls : CallExecute(c)
    \/ \E c \in Calls : CallLoop(c)
    \/ \E c \in Calls : CallReturn(c)
    \/ \E c \in Calls : CallEnsureTokenPool(c)
    \/ \E c \in Calls : CallStartTransfer(c)
    \/ \E c \in Calls : CallTransferSettles(c)
    \/ \E c \in Calls : CallDelay500(c)
    \/ \E c \in Calls : CallBatchReturns(c)
    \/ \E c \in Calls : CallDelay1000(c)

SpecTwo == InitTwo /\ [][NextTwo]_vars

---------------------------------------------------------------------------
(* main(): the summary printed of the results of execute() *)

\* results.filter(r => r.success)
Succeeded(outcomes) == SelectSeq(outcomes, LAMBDA r : r.success)

\* results.filter(r => !r.success)
Failed(outcomes) == SelectSeq(outcomes, LAMBDA r : ~r.success)

\* `${f.recipient.toBase58().slice(0, 8)}...: ${f.error}`
FailedLine(f) ==
    [ recipient |-> slice(toBase58(f.recipient), 0, ShownKeyLength),
      reason |-> f.error ]

\* the failed lines printed for every outcome, not for the failed ones
summarize_DetailsOfAll(outcomes) ==
    [ total |-> Len(outcomes),
      successful |-> Len(Succeeded(outcomes)),
      failed |-> Len(Failed(outcomes)),
      failedDetails |-> [k \in 1..Len(outcomes) |->
                            IF outcomes[k].success
                            THEN [ recipient |-> slice(toBase58(outcomes[k].recipient),
                                                       0, ShownKeyLength),
                                   reason |-> <<>> ]
                            ELSE FailedLine(outcomes[k])] ]

\* Total, Successful, Failed and the failed transactions
summarize(outcomes) ==
    [ total |-> Len(outcomes),
      successful |-> Len(Succeeded(outcomes)),
      failed |-> Len(Failed(outcomes)),
      failedDetails |-> [k \in 1..Len(Failed(outcomes)) |->
                            FailedLine(Failed(outcomes)[k])] ]

\* the outcomes that the summarised results are made of
SummaryOutcomes ==
    { SuccessOutcome(AirdropRecipient(AddrA, 1000000, NoMetadata), "5VERv8NMvzbJ"),
      FailureOutcome(AirdropRecipient(AddrB, 500000, NoMetadata),
                     Error(<<"insufficient funds">>)),
      FailureOutcome(AirdropRecipient(AddrC, 2500000, NoMetadata),
                     NonError(<<"timeout">>)) }

\* execute() has returned its results to main()
InitSummary ==
    /\ config \in { [ recipients |-> <<>>, batchSize |-> <<5>>,
                      useCompression |-> FALSE ] }
    /\ lightRpc = FALSE
    /\ poolExists = FALSE
    /\ pc = "done"
    /\ results \in SeqsUpTo(SummaryOutcomes, MaxOutcomes)
    /\ batchSize = 5
    /\ i = 0
    /\ batch = <<>>
    /\ batchNumber = 0
    /\ batchResults = <<>>
    /\ j = 1
    /\ xfers = <<>>
    /\ batchLog = <<>>
    /\ poolFailed = FALSE
    /\ vResult = NotCalled
    /\ processor = "none"
    /\ delayLog = <<>>
    /\ poolResult = NoPoolResult
    /\ poolCalls = 0
    /\ poolDone = 0
    /\ poolLog = <<>>
    /\ InitAux
    /\ InitIndexer

\* main(): the lines printed after execute() has returned
Summarize ==
    /\ pc = "done"
    /\ report = NoReport
    /\ report' = summarize(results)
    /\ UNCHANGED << indexerVars, config, lightRpc, pc, runVars, vResult, poolVars, calls,
                    ledgerLog, vAgain >>

NextSummary == Summarize

SpecSummary == InitSummary /\ [][NextSummary]_vars

---------------------------------------------------------------------------
(* sendStandardTransfer, stepped at its awaits inside processStandardBatch *)

\* A bigint amount wider than the integers of the model is the set of the
\* positions of its 1 bits: 2^53 + 1 is {53, 0}.
RECURSIVE AddBit(_, _)
AddBit(bits, b) ==
    IF b \in bits THEN AddBit(bits \ {b}, b + 1) ELSE bits \cup {b}

TopBit(bits) == CHOOSE b \in bits : \A other \in bits : other <= b

\* Number(amount): the nearest double, ties to even
NumberOf(bits) ==
    IF bits = {} THEN {}
    ELSE LET cut == TopBit(bits) - (MantissaBits - 1)
             kept == { b \in bits : b >= cut }
             half == (cut - 1) \in bits
             sticky == \E b \in bits : b < cut - 1
         IN  IF cut <= 0 THEN bits
             ELSE IF half /\ (sticky \/ cut \in bits) THEN AddBit(kept, cut)
             ELSE kept

\* the u64 amount field of the transfer instruction: a number that does not
\* fit is either refused or cut to its low 64 bits, as the library decides
EncodeU64(number) ==
    IF \E b \in number : b >= AmountBits
    THEN { [threw |-> TRUE, amount |-> {}],
           [threw |-> FALSE, amount |-> { b \in number : b < AmountBits }] }
    ELSE { [threw |-> FALSE, amount |-> number] }

\* amounts of the u64 range: 1, 2^20, 2^53, 2^53 + 1, 2^53 + 3, 2^64 - 1
DirectAmounts == { {0}, {20}, {53}, {53, 0}, {53, 1, 0}, 0..63 }

DirectRecipients ==
    { AirdropRecipient(AddrA, amount, NoMetadata) : amount \in DirectAmounts }
    \cup { AirdropRecipient(AddrB, {0}, NoMetadata) }

\* processStandardBatch has been called with the recipients of one batch
InitDirect ==
    /\ config \in { [ recipients |-> recipients, batchSize |-> <<>>,
                      useCompression |-> FALSE ] :
                    recipients \in SeqsUpTo(DirectRecipients, MaxDirectBatch) }
    /\ lightRpc = FALSE
    /\ poolExists = FALSE
    /\ pc = "forOf"
    /\ results = <<>>
    /\ batchSize = DefaultBatchSize
    /\ i = 0
    /\ batch = config.recipients
    /\ batchNumber = 1
    /\ batchResults = <<>>
    /\ j = 1
    /\ xfers = <<>>
    /\ batchLog = <<>>
    /\ poolFailed = FALSE
    /\ vResult = NotCalled
    /\ processor = "standard"
    /\ delayLog = <<>>
    /\ poolResult = NoPoolResult
    /\ poolCalls = 0
    /\ poolDone = 0
    /\ poolLog = <<>>
    /\ InitAux
    /\ InitIndexer

DirectFrame ==
    UNCHANGED << indexerVars, config, lightRpc, results, batchSize, i, batch, batchNumber,
                 xfers, batchLog, poolFailed, vResult, processor, delayLog,
                 poolVars, calls, report, vAgain >>

AccountCall(owner) ==
    [ op |-> "getOrCreateAssociatedTokenAccount", owner |-> owner,
      amount |-> {}, recipient |-> j, state |-> "pending" ]

TransferCall(amount) ==
    [ op |-> "transfer", owner |-> batch[j].address,
      amount |-> amount, recipient |-> j, state |-> "pending" ]

Settled(state) == [ledgerLog EXCEPT ![Len(ledgerLog)].state = state]

\* for (const recipient of recipients): sendStandardTransfer up to its first
\* await, the token account of the authority
ResolveSourceAccount ==
    /\ pc = "forOf"
    /\ j <= Len(batch)
    /\ ledgerLog' = Append(ledgerLog, AccountCall(AuthorityKey))
    /\ pc' = "sourceAccount"
    /\ UNCHANGED << indexerVars, batchResults, j >>
    /\ DirectFrame

\* the source account is there: on to the token account of the recipient
ResolveRecipientAccount ==
    /\ pc = "sourceAccount"
    /\ ledgerLog' = Append(Settled("resolved"), AccountCall(batch[j].address))
    /\ pc' = "recipientAccount"
    /\ UNCHANGED << indexerVars, batchResults, j >>
    /\ DirectFrame

\* both accounts are there: createTransferInstruction(..., Number(amount), ...)
\* and sendAndConfirmTransaction
SubmitTransfer ==
    /\ pc = "recipientAccount"
    /\ \E encoded \in EncodeU64(NumberOf(batch[j].amount)) :
          IF encoded.threw
          THEN /\ ledgerLog' = Settled("resolved")
               /\ batchResults' = Append(batchResults,
                                         FailureOutcome(batch[j], Error(<<"">>)))
               /\ j' = j + 1
               /\ pc' = "forOf"
          ELSE /\ ledgerLog' = Append(Settled("resolved"),
                                      TransferCall(encoded.amount))
               /\ pc' = "sendAndConfirm"
               /\ UNCHANGED << indexerVars, batchResults, j >>
    /\ DirectFrame

\* a failed account resolution answered by asking for the account again
AccountRejects_Retry ==
    /\ pc \in {"sourceAccount", "recipientAccount"}
    /\ ledgerLog' = Append(Settled("failed"),
                           [ledgerLog[Len(ledgerLog)] EXCEPT !.state = "pending"])
    /\ Len(ledgerLog) < 3 * MaxDirectBatch
    /\ UNCHANGED << indexerVars, pc, batchResults, j >>
    /\ DirectFrame

\* getOrCreateAssociatedTokenAccount rejects: sendStandardTransfer rejects,
\* the catch block of processStandardBatch
AccountRejects ==
    /\ pc \in {"sourceAccount", "recipientAccount"}
    /\ ledgerLog' = Settled("failed")
    /\ \E thrown \in StandardThrown :
          batchResults' = Append(batchResults, FailureOutcome(batch[j], thrown))
    /\ j' = j + 1
    /\ pc' = "forOf"
    /\ DirectFrame

\* sendAndConfirmTransaction resolves with the signature
SubmitResolves ==
    /\ pc = "sendAndConfirm"
    /\ ledgerLog' = Settled("confirmed")
    /\ \E signature \in Signatures :
          batchResults' = Append(batchResults, SuccessOutcome(batch[j], signature))
    /\ j' = j + 1
    /\ pc' = "forOf"
    /\ DirectFrame

\* sendAndConfirmTransaction rejects: the catch block of processStandardBatch
SubmitRejects ==
    /\ pc = "sendAndConfirm"
    /\ ledgerLog' = Settled("failed")
    /\ \E thrown \in StandardThrown :
          batchResults' = Append(batchResults, FailureOutcome(batch[j], thrown))
    /\ j' = j + 1
    /\ pc' = "forOf"
    /\ DirectFrame

\* return results
StandardBatchReturns ==
    /\ pc = "forOf"
    /\ j > Len(batch)
    /\ pc' = "returned"
    /\ UNCHANGED << indexerVars, ledgerLog, batchResults, j >>
    /\ DirectFrame

NextDirect ==
    \/ ResolveSourceAccount
    \/ ResolveRecipientAccount
    \/ SubmitTransfer
    \/ AccountRejects
    \/ SubmitResolves
    \/ SubmitRejects
    \/ StandardBatchReturns

SpecDirect == InitDirect /\ [][NextDirect]_vars

---------------------------------------------------------------------------
(* validate() called a second time on the same config *)

\* the Set of seen addresses kept from the first call
ValidateAgain_StaticSeen ==
    /\ vResult # NotCalled
    /\ vAgain = NotCalled
    /\ vAgain' =
          IF Len(config.recipients) = 0 THEN Threw(EmptyRecipientsError)
          ELSE IF Truthy(config.batchSize) /\ config.batchSize[1] < 1
               THEN Threw(BatchSizeError)
          ELSE CheckDuplicates(config.recipients, 1,
                               { toBase58(config.recipients[k].address) :
                                 k \in 1..Len(config.recipients) })
    /\ UNCHANGED << indexerVars, config, lightRpc, pc, runVars, vResult, poolVars, calls,
                    ledgerLog, report >>

ValidateAgain ==
    /\ vResult # NotCalled
    /\ vAgain = NotCalled
    /\ vAgain' = validate(config)
    /\ UNCHANGED << indexerVars, config, lightRpc, pc, runVars, vResult, poolVars, calls,
                    ledgerLog, report >>

NextVV ==
    \/ Validate
    \/ ValidateAgain

SpecVV == InitV /\ [][NextVV]_vars

---------------------------------------------------------------------------
(* getCompressedBalance *)

\* getCompressedBalance called on its own, whatever the indexer holds
InitBalance ==
    /\ config = [recipients |-> <<>>, batchSize |-> <<>>, useCompression |-> TRUE]
    /\ lightRpc = TRUE
    /\ poolExists = FALSE
    /\ InitRun
    /\ InitAux
    /\ tokenAccounts \in SeqsUpTo(AccountAmounts, MaxAccounts)
    /\ balanceLog = <<>>
    /\ attempts = 0
    /\ balanceBefore = 0

\* await getCompressedBalance(rpc, owner, mint)
QueryCompressedBalance ==
    /\ pc = "new"
    /\ Len(balanceLog) < MaxQueries
    /\ \E answer \in IndexerAnswers(tokenAccounts) :
          balanceLog' = Append(balanceLog, BalanceCall(answer))
    /\ UNCHANGED << config, lightRpc, pc, runVars, vResult, poolVars, auxVars,
                    tokenAccounts, attempts, balanceBefore >>

NextBalance == QueryCompressedBalance

SpecBalance == InitBalance /\ [][NextBalance]_vars

---------------------------------------------------------------------------
(* Campaigns without a usable batchSize: omitted, or 0 *)

\* the k-th recipient of a campaign: distinct keys, one amount
CampaignRecipient(k) == AirdropRecipient(<<3, k>>, 1000000, NoMetadata)

Campaign(n) == [k \in 1..n |-> CampaignRecipient(k)]

\* standard campaigns of every length, batchSize omitted or 0
InitDefault ==
    /\ config \in { [recipients |-> Campaign(n), batchSize |-> size,
                      useCompression |-> FALSE] :
                        n \in 0..MaxCampaign, size \in { <<>>, <<0>> } }
    /\ lightRpc = FALSE
    /\ poolExists = FALSE
    /\ InitRun
    /\ InitAux
    /\ InitIndexer

\* validate() and the runner; the transfers followed are the ones that
\* resolve: how execute() cuts the list does not depend on the outcomes
NextDefault ==
    \/ Validate
    \/ Constructor
    \/ Execute
    \/ ExecuteLoop
    \/ ExecuteReturn
    \/ StartTransfer
    \/ TransferResolves
    \/ ProcessBatchReturns
    \/ Delay1000

SpecDefault == InitDefault /\ [][NextDefault]_vars

---------------------------------------------------------------------------
(* examples/compressed-transfer.ts: main() *)

\* recipient2.publicKey
RecipientTwoKey == <<4, 2>>

\* a balance query of main(): in the wait loop, or for the final balances
DemoQuery(place, answer) ==
    [ at |-> place, value |-> getCompressedBalance(answer).value ]

\* what the indexer can answer for recipient2 after the transfer
RecipientTwoAnswers ==
    IndexerAnswers(<<>>) \cup IndexerAnswers(<<transferAmount>>)

\* while (... && attempts <= maxAttempts)
LoopCondition_Inclusive == balanceBefore = 0 /\ attempts <= maxAttempts

\* while (balanceBefore === BigInt(0) && attempts < maxAttempts)
LoopCondition == balanceBefore = 0 /\ attempts < maxAttempts

InitDemo ==
    /\ config = [recipients |-> <<>>, batchSize |-> <<>>, useCompression |-> TRUE]
    /\ lightRpc = TRUE
    /\ poolExists = FALSE
    /\ InitRun
    /\ InitAux
    /\ InitIndexer

\* main() up to createMint: the payer's key is read from the environment
DemoMain ==
    /\ pc = "new"
    /\ pc' \in {"createMint", "fatal"}
    /\ UNCHANGED << indexerVars, auxVars, config, lightRpc, runVars, vResult, poolVars >>

\* await createMint(...), outside the try block
DemoCreateMint ==
    /\ pc = "createMint"
    /\ pc' \in {"createCompressedAccount", "fatal"}
    /\ UNCHANGED << indexerVars, auxVars, config, lightRpc, runVars, vResult, poolVars >>

\* await createCompressedAccount(...); balanceBefore = 0, attempts = 0
DemoCreateCompressedAccount ==
    /\ pc = "createCompressedAccount"
    /\ pc' \in {"while", "caught"}
    /\ balanceBefore' = 0
    /\ attempts' = 0
    /\ UNCHANGED << tokenAccounts, balanceLog, auxVars, config, lightRpc, runVars, vResult, poolVars >>

\* the Photon indexer picks up the minted account, at any time after the mint
IndexerCatchesUp ==
    /\ pc \in {"while", "setTimeout", "getCompressedBalance"}
    /\ tokenAccounts = <<>>
    /\ tokenAccounts' = <<mintAmount>>
    /\ UNCHANGED << balanceLog, attempts, balanceBefore, auxVars, config, lightRpc, pc, runVars, vResult, poolVars >>

\* the loop test holds: await new Promise(resolve => setTimeout(resolve, 3000))
DemoWaits ==
    /\ pc = "while"
    /\ LoopCondition
    /\ delayLog' = Append(delayLog, 3000)
    /\ pc' = "setTimeout"
    /\ UNCHANGED << indexerVars, auxVars, config, lightRpc, results, batchSize, i, batch,
                    batchNumber, batchResults, j, xfers, batchLog, poolFailed,
                    vResult, processor, poolVars >>

\* the timer fires: getCompressedBalance(lightRpc, recipient.publicKey, mint)
DemoTimerFires ==
    /\ pc = "setTimeout"
    /\ pc' = "getCompressedBalance"
    /\ UNCHANGED << indexerVars, auxVars, config, lightRpc, runVars, vResult, poolVars >>

\* balanceBefore = await getCompressedBalance(...); attempts++
DemoBalanceReturns ==
    /\ pc = "getCompressedBalance"
    /\ \E answer \in IndexerAnswers(tokenAccounts) :
          /\ balanceBefore' = getCompressedBalance(answer).value
          /\ balanceLog' = Append(balanceLog, DemoQuery("wait", answer))
    /\ attempts' = attempts + 1
    /\ pc' = "while"
    /\ UNCHANGED << tokenAccounts, auxVars, config, lightRpc, runVars, vResult, poolVars >>

\* the loop is left with balanceBefore === BigInt(0): return
DemoGivesUp ==
    /\ pc = "while"
    /\ ~LoopCondition
    /\ balanceBefore = 0
    /\ pc' = "returned"
    /\ UNCHANGED << indexerVars, auxVars, config, lightRpc, runVars, vResult, poolVars >>

\* the loop is left with a balance: await transferCompressed(...)
DemoTransfer ==
    /\ pc = "while"
    /\ ~LoopCondition
    /\ balanceBefore # 0
    /\ xfers' = Append(xfers,
                       [ to |-> RecipientTwoKey,
                         amount |-> transferAmount,
                         mode |-> "compressed",
                         state |-> "pending",
                         thrown |-> NoThrown ])
    /\ pc' = "transferCompressed"
    /\ UNCHANGED << indexerVars, auxVars, config, lightRpc, results, batchSize, i, batch,
                    batchNumber, batchResults, j, batchLog, poolFailed, vResult,
                    processor, delayLog, poolVars >>

\* transferCompressed resolves with the signature
DemoTransferResolves ==
    /\ pc = "transferCompressed"
    /\ xfers' = [xfers EXCEPT ![Len(xfers)].state = "confirmed"]
    /\ pc' = "balance1"
    /\ UNCHANGED << indexerVars, auxVars, config, lightRpc, results, batchSize, i, batch,
                    batchNumber, batchResults, j, batchLog, poolFailed, vResult,
                    processor, delayLog, poolVars >>

\* transferCompressed rejects: the catch block of main()
DemoTransferRejects ==
    /\ pc = "transferCompressed"
    /\ \E thrown \in BackendThrown :
          xfers' = [xfers EXCEPT ![Len(xfers)].state = "failed",
                                 ![Len(xfers)].thrown = transferCompressedCatch(thrown)]
    /\ pc' = "caught"
    /\ UNCHANGED << indexerVars, auxVars, config, lightRpc, results, batchSize, i, batch,
                    batchNumber, batchResults, j, batchLog, poolFailed, vResult,
                    processor, delayLog, poolVars >>

\* const balance1 = await getCompressedBalance(lightRpc, recipient.publicKey, mint)
DemoBalance1 ==
    /\ pc = "balance1"
    /\ \E answer \in IndexerAnswers(tokenAccounts) \cup IndexerAnswers(<<transferAmount>>) :
          balanceLog' = Append(balanceLog, DemoQuery("final", answer))
    /\ pc' = "balance2"
    /\ UNCHANGED << tokenAccounts, attempts, balanceBefore, auxVars, config, lightRpc, runVars, vResult, poolVars >>

\* const balance2 = await getCompressedBalance(lightRpc, recipient2.publicKey, mint)
DemoBalance2 ==
    /\ pc = "balance2"
    /\ \E answer \in RecipientTwoAnswers :
          balanceLog' = Append(balanceLog, DemoQuery("final", answer))
    /\ pc' = "returned"
    /\ UNCHANGED << tokenAccounts, attempts, balanceBefore, auxVars, config, lightRpc, runVars, vResult, poolVars >>

NextDemo ==
    \/ DemoMain
    \/ DemoCreateMint
    \/ DemoCreateCompressedAccount
    \/ IndexerCatchesUp
    \/ DemoWaits
    \/ DemoTimerFires
    \/ DemoBalanceReturns
    \/ DemoGivesUp
    \/ DemoTransfer
    \/ DemoTransferResolves
    \/ DemoTransferRejects
    \/ DemoBalance1
    \/ DemoBalance2

SpecDemo == InitDemo /\ [][NextDemo]_vars

---------------------------------------------------------------------------
(* Vocabulary of the properties *)

NumRecipients == Len(config.recipients)

DistinctAddresses ==
    \A a, b \in 1..NumRecipients :
        a # b => config.recipients[a].address # config.recipients[b].address

IntegerBatchSize == config.batchSize # <<>> /\ config.batchSize[1] >= 1

ValidConfig == DistinctAddresses /\ IntegerBatchSize

\* every outcome created so far, in creation order
Outcomes == results \o batchResults

TransfersTo(address) == { p \in 1..Len(xfers) : xfers[p].to = address }

Ceil(n, b) == (n + b - 1) \div b

HasDuplicate ==
    \E a, b \in 1..NumRecipients :
        a < b /\ config.recipients[a].address = config.recipients[b].address

IsDuplicateAt(b) ==
    \E a \in 1..(b - 1) : config.recipients[a].address = config.recipients[b].address

FirstDuplicateIndex ==
    CHOOSE b \in 1..NumRecipients :
        IsDuplicateAt(b) /\ \A c \in 1..(b - 1) : ~IsDuplicateAt(c)

Validated == vResult # NotCalled

---------------------------------------------------------------------------
(* C1: for a config with pairwise distinct addresses and an integer        *)
(* batchSize >= 1, whatever transfers succeed or fail, execute() returns   *)
(* exactly len(recipients) outcomes, in input order, outcome k carrying    *)
(* the address and the amount of recipient k.                              *)
C1_OutcomesMatchRecipients ==
    (pc = "done" /\ ValidConfig) =>
        /\ Len(results) = NumRecipients
        /\ \A k \in 1..NumRecipients :
              /\ results[k].recipient = config.recipients[k].address
              /\ results[k].amount = config.recipients[k].amount

C1_Witness ==
    /\ pc = "done"
    /\ ValidConfig
    /\ NumRecipients = 3
    /\ batchSize = 2
    /\ Len(results) = 3
    /\ results[1].success /\ ~results[2].success /\ results[3].success

(* C2: failure isolation, in both modes: a failed transfer does not stop   *)
(* the later recipients of its batch or of later batches from being        *)
(* attempted, and the failed recipient has a failure outcome at its own    *)
(* position.                                                               *)
C2_FailureIsolation ==
    (pc = "done" /\ ValidConfig) =>
        /\ Len(xfers) = NumRecipients
        /\ Len(results) = NumRecipients
        /\ \A k \in 1..NumRecipients :
              /\ xfers[k].to = config.recipients[k].address
              /\ xfers[k].state \in {"confirmed", "failed"}
              /\ results[k].recipient = config.recipients[k].address
              /\ results[k].success = (xfers[k].state = "confirmed")

C2_Witness ==
    /\ pc = "done"
    /\ ValidConfig
    /\ config.useCompression
    /\ NumRecipients = 3
    /\ batchSize = 3
    /\ Len(xfers) = 3
    /\ xfers[1].state = "confirmed" /\ xfers[2].state = "failed"
    /\ xfers[3].state = "confirmed"
    /\ results[1].success /\ ~results[2].success /\ results[3].success

(* C3: execute() never fails as a whole: whatever the transfers and the    *)
(* ensure-token-pool step do, execute() does not throw or reject.          *)
C3_ExecuteNeverThrows == pc # "threw"

C3_Witness ==
    /\ pc = "done"
    /\ poolFailed
    /\ \E k \in 1..Len(results) : ~results[k].success

(* C4: during one execute() the strategy is invoked exactly once per       *)
(* recipient (no retry, no skip), exactly one outcome is created per       *)
(* recipient, and an outcome never changes once appended.                  *)
C4_AtMostOnce ==
    DistinctAddresses =>
        /\ \A address \in Addresses : Cardinality(TransfersTo(address)) <= 1
        /\ (pc = "done" /\ IntegerBatchSize) =>
              /\ Len(results) = NumRecipients
              /\ \A k \in 1..NumRecipients :
                    Cardinality(TransfersTo(config.recipients[k].address)) = 1

C4_OutcomesOnlyAppended ==
    /\ Len(Outcomes') >= Len(Outcomes)
    /\ SubSeq(Outcomes', 1, Len(Outcomes)) = Outcomes

C5_SignatureIffSuccess ==
    pc = "done" =>
        \A k \in 1..Len(results) :
            /\ (results[k].signature # "") <=> results[k].success
            /\ ("error" \in DOMAIN results[k]) <=> ~results[k].success

C5_Witness ==
    /\ pc = "done"
    /\ Len(results) = 3
    /\ results[1].success
    /\ ~results[2].success /\ results[2].error = <<"">>
    /\ ~results[3].success /\ results[3].error = <<"Unknown error">>

(* C6: processing is strictly sequential: at most one transfer is in       *)
(* flight, a transfer starts only when every earlier recipient has its     *)
(* outcome, and no transfer of a batch starts before every recipient of    *)
(* the batches before it has an outcome in the campaign result.            *)
C6_StrictlySequential ==
    /\ Cardinality({ p \in 1..Len(xfers) : xfers[p].state = "pending" }) <= 1
    /\ \A p \in 1..Len(xfers) :
          xfers[p].state = "pending" =>
              /\ p = Len(xfers)
              /\ Len(Outcomes) = p - 1
              /\ IntegerBatchSize =>
                    /\ Len(results) = (Len(batchLog) - 1) * batchSize
                    /\ Len(batchResults) = p - 1 - Len(results)

C6_Witness ==
    /\ pc = "transfer"
    /\ ValidConfig
    /\ batchSize = 2
    /\ batchNumber = 2
    /\ Len(xfers) = 3
    /\ xfers[3].state = "pending"
    /\ Len(results) = 2

(* C7, as stated: for N recipients and integer batchSize B >= 1 execute()  *)
(* processes exactly ceil(N/B) batches, batch k being the recipients at    *)
(* indices (k-1)*B .. min(k*B, N)-1; the last batch has length N mod B (or *)
(* B when N mod B = 0); and B >= N yields exactly one batch.               *)
BatchesAreConsecutiveSlices ==
    /\ Len(batchLog) = Ceil(NumRecipients, batchSize)
    /\ \A k \in 1..Len(batchLog) :
          batchLog[k].recipients =
              SubSeq(config.recipients, (k - 1) * batchSize + 1,
                     Min(k * batchSize, NumRecipients))

LastBatchLength ==
    IF batchLog = <<>> THEN 0 ELSE Len(batchLog[Len(batchLog)].recipients)

LastBatchIsRemainder ==
    LastBatchLength = IF NumRecipients % batchSize = 0 THEN batchSize
                      ELSE NumRecipients % batchSize

C8_NonPositiveBatchSizeRejected ==
    ( /\ Validated
      /\ NumRecipients > 0
      /\ config.batchSize # <<>>
      /\ config.batchSize[1] < 1 ) =>
        vResult = Threw(BatchSizeError)

(* C9, as stated: validate() fails with the duplicate-recipient error      *)
(* whenever two recipients share an address, whatever their amounts and    *)
(* metadata, and reports the first duplicate in sequence order.            *)
ReportsFirstDuplicate ==
    vResult =
        Threw(DuplicateError(toBase58(config.recipients[FirstDuplicateIndex].address)))

C9_Original == (Validated /\ HasDuplicate) => ReportsFirstDuplicate

(* C9, amended: the same, for a config whose batchSize is omitted or >= 1  *)
(* (the batch-size check runs before the duplicate check).                 *)
C9_DuplicateReported ==
    ( /\ Validated
      /\ HasDuplicate
      /\ (config.batchSize = <<>> \/ IntegerBatchSize) ) =>
        ReportsFirstDuplicate

C9_Witness ==
    /\ Validated
    /\ NumRecipients = 4
    /\ config.batchSize = <<2>>
    /\ config.recipients[1].address = AddrA
    /\ config.recipients[2].address = AddrB
    /\ config.recipients[3].address = AddrB
    /\ config.recipients[4].address = AddrA
    /\ config.recipients[2].amount # config.recipients[3].amount
    /\ vResult = Threw(DuplicateError(toBase58(AddrB)))

(* C10: validate() fails with the empty-recipients error whenever the      *)
(* recipient sequence is empty, whatever the other fields of the config.   *)
C10_EmptyRecipientsRejected ==
    (Validated /\ NumRecipients = 0) => vResult = Threw(EmptyRecipientsError)

C10_Witness ==
    /\ Validated
    /\ NumRecipients = 0
    /\ config.batchSize = <<-1>>
    /\ config.useCompression
    /\ vResult = Threw(EmptyRecipientsError)

---------------------------------------------------------------------------
(* C11: a campaign run on a config that validate() rejects performs no     *)
(* account resolution, no transfer submission and no backend call, and     *)
(* produces no outcomes.                                                   *)
C11_RejectedConfigIsNotRun ==
    validate(config).status = "threw" =>
        /\ xfers = <<>>
        /\ Outcomes = <<>>
        /\ poolCalls = 0

(* C12: a runner asked for compressed mode without a Light Protocol Rpc    *)
(* fails at construction: execute() is never entered, so there is no       *)
(* transfer attempt, no ensureTokenPool call, no delay and no outcome.     *)
C12_FailFastWithoutBackend ==
    (config.useCompression /\ ~lightRpc) =>
        /\ pc \in {"new", "ctorThrew"}
        /\ xfers = <<>>
        /\ Outcomes = <<>>
        /\ poolCalls = 0
        /\ delayLog = <<>>

C12_Witness ==
    /\ config.useCompression
    /\ ~lightRpc
    /\ NumRecipients = MaxRecipients
    /\ pc = "ctorThrew"

(* C13: when the config asks for compressed mode, no transfer is made by   *)
(* the other strategy: every transfer of the run is a compressed one.      *)
C13_NoSilentSubstitution ==
    config.useCompression =>
        \A p \in 1..Len(xfers) : xfers[p].mode = "compressed"

(* C14: the mode of a campaign is fixed when the runner is constructed:    *)
(* all transfers of one execute() are made in the same mode, also when the *)
(* caller changes the mode flag of its config while execute() is           *)
(* suspended.                                                              *)
C14_ModeFixedForCampaign ==
    \A p, q \in 1..Len(xfers) : xfers[p].mode = xfers[q].mode

(* C15: no operation blocks for ever: a transfer that the runner is        *)
(* waiting for is always followed by the runner going on, also when the    *)
(* ledger or the backend never answers the submission.                     *)
C15_HungTransferTimesOut ==
    (pc = "transfer") ~> (pc # "transfer")

\* execute() has returned one outcome per recipient, in input order, and
\* made exactly one transfer to each recipient
C16_CoveredExactlyOnce ==
    /\ pc = "done"
    /\ Len(results) = NumRecipients
    /\ \A k \in 1..NumRecipients :
          /\ results[k].recipient = config.recipients[k].address
          /\ results[k].amount = config.recipients[k].amount
          /\ Cardinality(TransfersTo(config.recipients[k].address)) = 1
    /\ Len(xfers) = NumRecipients

(* C16: for every config that validate() accepts, if every awaited call    *)
(* is answered in the end, a constructed runner's execute() completes,     *)
(* with every recipient covered exactly once.                              *)
C16_ExecuteTerminates ==
    (validate(config) = Returned /\ pc = "ready") ~> C16_CoveredExactlyOnce

C16_Witness ==
    /\ validate(config) = Returned
    /\ NumRecipients = MaxRecipients
    /\ config.batchSize = <<2>>
    /\ config.useCompression
    /\ poolFailed
    /\ \E p \in 1..Len(xfers) : xfers[p].state = "failed"
    /\ C16_CoveredExactlyOnce

\* how many delay(ms) calls of the run had the given ms
DelayCount(ms) == Cardinality({ p \in 1..Len(delayLog) : delayLog[p] = ms })

InBatch == pc \in {"ensureTokenPool", "forOf", "transfer", "delay500"}

(* C17: with N recipients and an effective batch size B >= 1, execute()    *)
(* makes exactly ceil(N/B) - 1 inter-batch delays (none when N = 0): one   *)
(* after each batch that is not the last, none after the last batch.       *)
C17_InterBatchDelays ==
    batchSize >= 1 =>
        LET batches == Ceil(NumRecipients, batchSize)
            started == Len(batchLog)
        IN  /\ InBatch => DelayCount(1000) = started - 1
            /\ pc = "delay1000" =>
                  DelayCount(1000) = started /\ started < batches
            /\ pc = "loop" =>
                  DelayCount(1000) = Min(started, Max(batches - 1, 0))
            /\ pc = "done" =>
                  /\ started = batches
                  /\ DelayCount(1000) = Max(batches - 1, 0)

C17_Witness ==
    /\ pc = "done"
    /\ NumRecipients = 3
    /\ batchSize = 1
    /\ Len(batchLog) = 3
    /\ DelayCount(1000) = 2

Suspended == pc \in {"ensureTokenPool", "transfer", "delay500", "delay1000"}

SettledTransfers == { p \in 1..Len(xfers) : xfers[p].state # "pending" }

(* C18 as stated: in both modes execute() is suspended only at the await   *)
(* of a transfer and at the inter-batch delay, and makes no other wait     *)
(* between recipients or after the last recipient of a batch.              *)
C18_Original ==
    /\ Suspended => pc \in {"transfer", "delay1000"}
    /\ DelayCount(500) = 0

(* C18: in standard mode execute() is suspended only at the await of a     *)
(* transfer and at the inter-batch delay; in compressed mode it is also    *)
(* suspended at the ensureTokenPool call that opens every batch and at a   *)
(* 500 ms delay after every recipient, the last of a batch included.       *)
C18_SuspensionPoints ==
    /\ processor = "none" => ~Suspended
    /\ processor = "standard" =>
          /\ Suspended => pc \in {"transfer", "delay1000"}
          /\ DelayCount(500) = 0
          /\ poolCalls = 0
    /\ processor = "compressed" =>
          /\ DelayCount(500) = Cardinality(SettledTransfers)
          /\ poolCalls = Len(batchLog)
          /\ pc = "delay500" => xfers[Len(xfers)].state # "pending"
    /\ Len(delayLog) = DelayCount(500) + DelayCount(1000)

C18_Witness ==
    /\ processor = "compressed"
    /\ pc = "delay500"
    /\ NumRecipients = 3
    /\ Len(batch) = 2
    /\ j = 3
    /\ Len(batchLog) = 1
    /\ DelayCount(500) = 2

(* C19: in compressed mode no transfer is handed to the backend before     *)
(* the ensureTokenPool call of its batch has been made and has finished,   *)
(* and a pool that already exists makes that call return, not throw.       *)
C19_PoolEnsuredBeforeTransfers ==
    /\ (\E p \in 1..Len(xfers) : xfers[p].mode = "compressed") => poolDone >= 1
    /\ (processor = "compressed" /\ pc = "transfer") =>
          /\ poolCalls = Len(batchLog)
          /\ poolDone = poolCalls
    /\ poolResult.answer = "already in use" =>
          ~poolResult.threw /\ ~(pc = "threw")

C19_Witness ==
    /\ processor = "compressed"
    /\ pc = "transfer"
    /\ Len(batchLog) = 2
    /\ poolDone = 2
    /\ poolResult.answer = "already in use"
    /\ ~poolFailed

(* C20: ensureTokenPool called again for a mint whose pool it has ensured  *)
(* succeeds again: the backend's duplicate-creation error is never passed  *)
(* on to the caller, and every other backend error is.                     *)
C20_EnsureTokenPoolIdempotent ==
    \A p \in 1..Len(poolLog) :
        /\ poolLog[p].answer = "already in use" =>
              ~poolLog[p].threw /\ poolLog[p].value = <<>>
        /\ poolLog[p].answer = "created" => ~poolLog[p].threw
        /\ poolLog[p].answer = "network error" =>
              /\ poolLog[p].threw
              /\ poolLog[p].value = <<"Failed to create token pool: ", "network error">>
        /\ (p > 1 /\ ~poolLog[p - 1].threw) =>
              /\ poolLog[p].answer # "created"
              /\ poolLog[p].answer = "already in use" => ~poolLog[p].threw
              /\ poolLog[p].threw <=> poolLog[p].answer = "network error"

C20_Witness ==
    /\ Len(poolLog) = 3
    /\ poolLog[1].answer = "created"
    /\ poolLog[2].answer = "already in use"
    /\ ~poolLog[2].threw
    /\ poolLog[3].answer = "network error"
    /\ poolLog[3].threw

---------------------------------------------------------------------------
\* the result a call has built holds one outcome per recipient, in input order
CallResultComplete(c) ==
    /\ Len(calls[c].results) = NumRecipients
    /\ \A k \in 1..NumRecipients :
          /\ calls[c].results[k].recipient = config.recipients[k].address
          /\ calls[c].results[k].amount = config.recipients[k].amount

(* C21: two execute() calls on one runner, one after the other or          *)
(* interleaved at their awaits, each build their own result: a call's      *)
(* result holds exactly the outcomes of its own transfers, it starts       *)
(* empty, and with an effective batch size >= 1 the returned result has    *)
(* one outcome per recipient in input order.                               *)
C21_CampaignIsolation ==
    \A c \in Calls :
        /\ calls[c].pc = "idle" => calls[c].results = <<>>
        /\ calls[c].results \o calls[c].batchResults = calls[c].own
        /\ (calls[c].pc = "done" /\ calls[c].batchSize >= 1) =>
              CallResultComplete(c)

C21_Witness ==
    /\ NumRecipients = MaxCallRecipients
    /\ config.batchSize = <<1>>
    /\ calls[1].pc = "done"
    /\ calls[2].pc = "done"
    /\ calls[1].results[1].success
    /\ ~calls[2].results[1].success
    /\ ~calls[1].results[2].success
    /\ calls[2].results[2].success

FailedPositions == { k \in 1..Len(results) : ~results[k].success }

\* how many failed outcomes there are up to position k of the results
FailedUpTo(k) == Cardinality({ m \in FailedPositions : m <= k })

LedgerCalls(k) == { p \in 1..Len(ledgerLog) : ledgerLog[p].recipient = k }

TransferCalls(k) == { p \in LedgerCalls(k) : ledgerLog[p].op = "transfer" }

(* C23: the transfer instruction that a standard transfer submits carries  *)
(* exactly recipient.amount, for every amount of the unsigned 64-bit       *)
(* range, and goes to the token account of the recipient.                  *)
C23_ExactAmount ==
    \A p \in 1..Len(ledgerLog) :
        ledgerLog[p].op = "transfer" =>
            /\ ledgerLog[p].amount = batch[ledgerLog[p].recipient].amount
            /\ ledgerLog[p].owner = batch[ledgerLog[p].recipient].address

\* the ledger calls made for recipient k, in the order they were made
LedgerOps(k) ==
    LET made == SelectSeq(ledgerLog, LAMBDA call : call.recipient = k)
    IN  [p \in 1..Len(made) |-> << made[p].op, made[p].owner >>]

StepOrder(k) ==
    << << "getOrCreateAssociatedTokenAccount", AuthorityKey >>,
       << "getOrCreateAssociatedTokenAccount", batch[k].address >>,
       << "transfer", batch[k].address >> >>

IsPrefix(s, t) == Len(s) <= Len(t) /\ s = SubSeq(t, 1, Len(s))

ResolutionFailed(k) ==
    \E p \in LedgerCalls(k) :
        /\ ledgerLog[p].op = "getOrCreateAssociatedTokenAccount"
        /\ ledgerLog[p].state = "failed"

BackendCauses ==
    { <<"Failed to transfer compressed tokens: ">> \o ErrorToString(thrown) :
      thrown \in BackendThrown }

(* C27: in compressed mode a transfer that the backend fails is final for  *)
(* its recipient: the outcome at its position is a failure whose error is  *)
(* the backend's cause behind the prefix of transferCompressed, no second  *)
(* transfer is made to that position, and none by a standard transfer.     *)
C27_BackendErrorIsTerminal ==
    processor = "compressed" =>
        /\ Len(xfers) - Len(Outcomes) \in {0, 1}
        /\ \A p \in 1..Len(xfers) : xfers[p].mode = "compressed"
        /\ \A p \in 1..Len(Outcomes) :
              /\ xfers[p].to = Outcomes[p].recipient
              /\ xfers[p].state = "failed" <=> ~Outcomes[p].success
              /\ xfers[p].state = "failed" => Outcomes[p].error \in BackendCauses
        /\ pc = "done" => Len(xfers) = Len(results)

C27_Witness ==
    /\ processor = "compressed"
    /\ pc = "done"
    /\ NumRecipients = 3
    /\ DistinctAddresses
    /\ config.batchSize = <<2>>
    /\ xfers[1].state = "confirmed"
    /\ xfers[2].state = "failed"
    /\ results[2].error = <<"Failed to transfer compressed tokens: ", "indexer lag">>
    /\ xfers[3].state = "failed"
    /\ results[3].error =
          <<"Failed to transfer compressed tokens: ", "Error: ", "proof fetch failed">>

(* C28: an ensureTokenPool call that fails with anything but 'already in   *)
(* use' does not end execute() and shows in no outcome: every recipient of *)
(* the batch is still sent a compressed transfer and gets its own outcome. *)
C28_PoolFailureNotFatal ==
    poolFailed =>
        /\ pc # "threw"
        /\ \A p \in 1..Len(Outcomes) :
              "error" \in DOMAIN Outcomes[p] =>
                  Outcomes[p].error \in BackendCauses
        /\ (poolResult.threw /\ pc \in {"forOf", "transfer", "delay500"}) =>
              /\ Len(batchResults) = j - 1
              /\ \A k \in 1..Len(batchResults) :
                    batchResults[k].recipient = batch[k].address
              /\ \A k \in 1..Len(batchResults) :
                    xfers[Len(xfers) - (IF pc = "transfer" THEN 1 ELSE 0)
                          - Len(batchResults) + k].mode = "compressed"
        /\ (pc = "done" /\ batchSize >= 1) => Len(results) = NumRecipients

C28_Witness ==
    /\ poolFailed
    /\ poolResult.threw
    /\ poolResult.answer = "network error"
    /\ pc = "forOf"
    /\ Len(batch) = 2
    /\ j = 3
    /\ Len(batchResults) = 2
    /\ batchResults[1].success
    /\ ~batchResults[2].success

(* C29: in compressed mode ensureTokenPool is called exactly once for      *)
(* every batch, when the batch starts and before its first transfer: one   *)
(* execute() with N recipients and an effective batch size B >= 1 calls it *)
(* ceil(N/B) times.                                                        *)
C29_PoolEnsuredOncePerBatch ==
    (config.useCompression /\ lightRpc) =>
        /\ poolCalls = Len(batchLog)
        /\ poolCalls - poolDone = (IF pc = "ensureTokenPool" THEN 1 ELSE 0)
        /\ pc = "ensureTokenPool" =>
              /\ j = 1
              /\ batchResults = <<>>
              /\ Len(xfers) = Len(results)
        /\ (pc = "done" /\ batchSize >= 1) =>
              poolCalls = Ceil(NumRecipients, batchSize)

C29_Witness ==
    /\ config.useCompression
    /\ pc = "done"
    /\ NumRecipients = 3
    /\ batchSize = 2
    /\ poolCalls = 2
    /\ Len(xfers) = 3

(* C30: in standard mode execute() never calls the compression backend,    *)
(* not even when the runner was constructed with a Light Protocol Rpc: no  *)
(* ensureTokenPool call and no compressed transfer is made.                *)
C30_DirectModeLeavesBackendAlone ==
    ~config.useCompression =>
        /\ poolCalls = 0
        /\ poolDone = 0
        /\ poolResult = NoPoolResult
        /\ processor # "compressed"
        /\ pc \notin {"ensureTokenPool", "delay500"}
        /\ \A p \in 1..Len(xfers) : xfers[p].mode = "standard"

C30_Witness ==
    /\ ~config.useCompression
    /\ lightRpc
    /\ pc = "done"
    /\ NumRecipients = 3
    /\ Len(xfers) = 3
    /\ \E p \in 1..3 : xfers[p].state = "failed"

\* the sum of the first k amounts
RECURSIVE TotalOfFirst(_, _)
TotalOfFirst(amounts, k) ==
    IF k = 0 THEN 0 ELSE amounts[k] + TotalOfFirst(amounts, k - 1)

(* C36: getCompressedBalance never fails: when the query of the backend    *)
(* fails it returns 0, otherwise it returns the sum of the amounts of all  *)
(* compressed accounts of the owner for the mint, 0 when there are none.   *)
C36_BalanceIsBestEffort ==
    \A p \in 1..Len(balanceLog) :
        /\ ~balanceLog[p].result.threw
        /\ balanceLog[p].answer.threw => balanceLog[p].result.value = 0
        /\ ~balanceLog[p].answer.threw =>
              balanceLog[p].result.value =
                  TotalOfFirst(tokenAccounts, Len(tokenAccounts))
        /\ (~balanceLog[p].answer.threw /\ tokenAccounts = <<>>) =>
              balanceLog[p].result.value = 0

C36_Witness ==
    /\ tokenAccounts = <<100000, 50000, 100000>>
    /\ Len(balanceLog) = 2
    /\ balanceLog[1].answer.threw
    /\ balanceLog[1].result = [threw |-> FALSE, value |-> 0]
    /\ ~balanceLog[2].answer.threw
    /\ balanceLog[2].result = [threw |-> FALSE, value |-> 250000]

(* C31: the compressed strategy waits only for the confirmation of the
   submission. While execute() runs it never queries the compressed balance
   and never polls for indexed state: with an indexer that lags forever (no
   account ever indexed, so every balance query would answer 0) every
   confirmed transfer has its successful outcome, and the only waits are
   the delay(500) and delay(1000) of the runner. *)
IndexerLagsForever == tokenAccounts = <<>>

OutcomeIsFor(outcome, recipient) ==
    /\ outcome.recipient = recipient.address
    /\ outcome.amount = recipient.amount

OutcomesOfPrefix(outcomes) ==
    /\ Len(outcomes) <= NumRecipients
    /\ \A k \in 1..Len(outcomes) : OutcomeIsFor(outcomes[k], config.recipients[k])

PrefixHolds == OutcomesOfPrefix(results) /\ OutcomesOfPrefix(Outcomes)

GrowsByAppending ==
    \/ Outcomes' = Outcomes
    \/ /\ Len(Outcomes') = Len(Outcomes) + 1
       /\ Outcomes' = Append(Outcomes, Outcomes'[Len(Outcomes')])

C32_PrefixInvariant == [][PrefixHolds' /\ GrowsByAppending]_vars

C32_Witness ==
    /\ pc = "transfer"
    /\ NumRecipients = 3
    /\ batchSize = 2
    /\ Len(results) = 2
    /\ ~results[1].success
    /\ results[2].success
    /\ batchNumber = 2
    /\ PrefixHolds

(* C33: batch numbering. For an integer batch size B >= 1 the batch that
   starts at index i has the number i / B + 1: the first batch is number 1,
   each batch has the number of the one before plus 1, and a whole run
   numbers its batches 1 .. ceil(N / B) in order. *)
C33_BatchNumbering ==
    IntegerBatchSize =>
        /\ \A k \in 1..Len(batchLog) : batchLog[k].number = k
        /\ InBatch =>
              /\ i % batchSize = 0
              /\ batchNumber = i \div batchSize + 1
              /\ batchNumber = Len(batchLog)
              /\ batch = slice(config.recipients, i, i + batchSize)
        /\ pc = "done" =>
              /\ Len(batchLog) = Ceil(NumRecipients, config.batchSize[1])
              /\ Len(batchLog) > 0 =>
                    batchLog[Len(batchLog)].number =
                        Ceil(NumRecipients, config.batchSize[1])

C33_Witness ==
    /\ pc = "done"
    /\ NumRecipients = 3
    /\ config.batchSize = <<1>>
    /\ Len(batchLog) = 3
    /\ batchLog[1].number = 1
    /\ batchLog[2].number = 2
    /\ batchLog[3].number = 3

(* C35: validate() makes its checks in a fixed order: empty recipients,
   then batch size, then duplicates. Of several defects the first failing
   check is the one reported: an empty list with a negative batch size
   reports the empty list, a negative batch size with duplicate recipients
   reports the batch size, and duplicates are reported only when the list
   is not empty and the batch size is omitted or at least 1. *)
NegativeBatchSize == config.batchSize # <<>> /\ config.batchSize[1] < 0

OmittedOrPositiveBatchSize == config.batchSize = <<>> \/ config.batchSize[1] >= 1

C35_FirstFailingCheck ==
    Validated =>
        /\ NumRecipients = 0 => vResult = Threw(EmptyRecipientsError)
        /\ (NumRecipients > 0 /\ NegativeBatchSize) => vResult = Threw(BatchSizeError)
        /\ (NumRecipients > 0 /\ OmittedOrPositiveBatchSize /\ HasDuplicate) =>
              /\ vResult.status = "threw"
              /\ vResult.error[1] = "Duplicate recipient: "
        /\ (NumRecipients > 0 /\ OmittedOrPositiveBatchSize /\ ~HasDuplicate) =>
              vResult = Returned

C35_Witness ==
    /\ Validated
    /\ NumRecipients = MaxValidated
    /\ HasDuplicate
    /\ NegativeBatchSize
    /\ vResult = Threw(BatchSizeError)

(* C37: failure reason recording. When the awaited transfer fails with an
   Error object the failed outcome's reason is that error's message; when
   it fails with any other thrown value the reason is the fixed text
   'Unknown error'; in both cases the outcome's signature is the empty
   string. *)
FailedTransfers == { p \in 1..Len(xfers) : xfers[p].state = "failed" }

ReasonFor(thrown) ==
    IF thrown.isError THEN thrown.message ELSE <<"Unknown error">>

C37_FailureReason ==
    \A p \in FailedTransfers :
        /\ p <= Len(Outcomes)
        /\ ~Outcomes[p].success
        /\ Outcomes[p].signature = ""
        /\ Outcomes[p].error = ReasonFor(xfers[p].thrown)
        /\ xfers[p].thrown.isError => Outcomes[p].error = xfers[p].thrown.message
        /\ ~xfers[p].thrown.isError => Outcomes[p].error = <<"Unknown error">>

C37_Witness ==
    /\ pc = "done"
    /\ processor = "standard"
    /\ Len(results) = 3
    /\ xfers[1].thrown = Error(<<"insufficient funds">>)
    /\ results[1].error = <<"insufficient funds">>
    /\ xfers[2].thrown = NonError(<<"timeout">>)
    /\ results[2].error = <<"Unknown error">>
    /\ xfers[3].thrown = Error(<<"">>)
    /\ results[3].error = <<"">>
    /\ \A p \in 1..3 : results[p].signature = ""

(* C34: default batch size. When batchSize is omitted validate() accepts
   the config (of one recipient or more, without duplicates) and execute()
   cuts the recipients into batches of 10; a batchSize of 0 is treated by
   execute() exactly like an omitted one. *)
NoUsableBatchSize == config.batchSize \in { <<>>, <<0>> }

Executing == pc \notin {"new", "ready", "ctorThrew"}

BatchesOfTen ==
    \A k \in 1..Len(batchLog) :
        /\ batchLog[k].number = k
        /\ batchLog[k].recipients =
              SubSeq(config.recipients, 10 * (k - 1) + 1, Min(10 * k, NumRecipients))

C34_DefaultBatchSize ==
    NoUsableBatchSize =>
        /\ (Validated /\ config.batchSize = <<>> /\ NumRecipients >= 1 /\ ~HasDuplicate)
              => vResult = Returned
        /\ Executing => /\ batchSize = 10
                        /\ BatchesOfTen
        /\ pc = "done" => /\ Len(batchLog) = Ceil(NumRecipients, 10)
                          /\ Len(results) = NumRecipients

C34_Witness ==
    /\ pc = "done"
    /\ config.batchSize = <<>>
    /\ vResult = Returned
    /\ NumRecipients = 11
    /\ Len(batchLog) = 2
    /\ Len(batchLog[1].recipients) = 10
    /\ Len(batchLog[2].recipients) = 1
    /\ delayLog = <<1000>>

(* C38: the demo's wait-for-indexer loop is bounded. It queries the
   compressed balance at most 20 times, it stops at the first non-zero
   balance, and when all 20 queries have returned 0 the demo ends without
   attempting the compressed transfer. *)
WaitQueries == { k \in 1..Len(balanceLog) : balanceLog[k].at = "wait" }

AllTwentyReturnedZero ==
    /\ Cardinality(WaitQueries) = 20
    /\ \A k \in WaitQueries : balanceLog[k].value = 0

LoopIsBounded ==
    /\ Cardinality(WaitQueries) <= 20
    /\ Cardinality(WaitQueries) = attempts
    /\ Cardinality({ d \in 1..Len(delayLog) : delayLog[d] = 3000 }) <= 20
    /\ \A k \in WaitQueries :
          balanceLog[k].value # 0 => \A later \in WaitQueries : later <= k
    /\ AllTwentyReturnedZero => /\ xfers = <<>>
                                /\ pc \in {"while", "returned"}
    /\ xfers # <<>> => balanceBefore # 0

C38_WaitLoopIsBounded ==
    [][/\ LoopIsBounded'
       /\ (AllTwentyReturnedZero /\ pc = "while" /\ pc' # pc) => pc' = "returned"]_vars

C38_Witness ==
    /\ pc = "returned"
    /\ tokenAccounts = <<mintAmount>>
    /\ AllTwentyReturnedZero
    /\ Len(balanceLog) = 20
    /\ attempts = 20
    /\ xfers = <<>>
====
